---- MODULE Spec2Model ----
(***************************************************************************)
(* bed2gtf.py: conversion of BED12 transcript lines to GTF records.        *)
(* The state is the process state of main()/run(): the GENES registry, the *)
(* output file, the line being converted, run()'s locals and the position  *)
(* of run() (and of the move_pos loop it calls) in its code.               *)
(* Lists keep the source's 0-based indices: a list of length n is a        *)
(* function with domain 0..n-1.                                            *)
(***************************************************************************)
EXTENDS Integers, Sequences, FiniteSets, TLC

\* ------------------------------------------------------------ bounds
\* Largest coordinate of an input line (txEnd <= MaxPos).
MaxPos == 8
\* Largest exonCount of an input line.
MaxExons == 3
\* Largest txStart of an input line.
MaxStart == 1
\* Largest coordinate of a line of a multi-line input file (SpecSeq).
SeqMaxPos == 3
\* Number of lines of a multi-line input file (SpecSeq).
MaxRecords == 2

\* ------------------------------------------------------------ inputs
Strands == {"+", "-"}

Names == {"t1", "t2", "t3"}

\* The isoforms table hashmap() builds: transcript name -> gene name.
isoforms == [nm \in Names |-> IF nm = "t3" THEN "g2" ELSE "g1"]

\* Python builtins.
Max(a, b) == IF a >= b THEN a ELSE b

Min(a, b) == IF a <= b THEN a ELSE b

Abs(a) == IF a >= 0 THEN a ELSE -a

\* len() of a list.
Len0(l) == Cardinality(DOMAIN l)

\* The empty list.
Nil == [i \in {} |-> 0]

\* list + [v]
Append0(l, v) == [i \in 0..Len0(l) |-> IF i < Len0(l) THEN l[i] ELSE v]

\* The blockSizes / blockStarts columns of a BED12 line with n blocks inside
\* a transcript of length at most span: blocks ascending, not overlapping,
\* every block of size >= 1, the first block at offset 0.
RECURSIVE Blocks(_, _)
Blocks(n, span) ==
    IF n = 1
    THEN {[sizes |-> Append0(Nil, sz), starts |-> Append0(Nil, 0)] : sz \in 1..span}
    ELSE UNION {
           UNION {
             {[sizes |-> Append0(b.sizes, sz), starts |-> Append0(b.starts, st)] :
                 sz \in 1..(span - st)}
             : st \in (b.starts[n-2] + b.sizes[n-2])..(span - 1)}
           : b \in Blocks(n - 1, span)}

\* The fields of the BED12 lines run() reads (chrom, score and itemRgb play
\* no part): txEnd is the end of the last block, the CDS lies in the
\* transcript. IsLine(l, ...) holds of every such line l within the bounds.
IsLine(l, maxPos, maxExons, maxStart, names) ==
    \E n \in 1..maxExons :
      \E ts \in 0..Min(maxStart, maxPos - 1) :
        \E b \in Blocks(n, maxPos - ts) :
          LET txEnd == ts + b.starts[n-1] + b.sizes[n-1]
          IN  \E cs \in ts..txEnd :
                \E ce \in cs..txEnd :
                  \E nm \in names, sd \in Strands :
                    l = [txStart |-> ts, txEnd |-> txEnd,
                         name |-> nm, strand |-> sd, cdsStart |-> cs, cdsEnd |-> ce,
                         exonCount |-> n, blockSizes |-> b.sizes, blockStarts |-> b.starts]

\* ------------------------------------------------------------ FrameCalculator
\* check_exon_frame with the end of the overlap not clipped to cdsEnd.
check_exon_frame_noclip(exonStart, exonEnd, cdsStart, cdsEnd) ==
    LET start == Max(exonStart, cdsStart)
        end == exonEnd
    IN  [start |-> start, end |-> end]

check_exon_frame(exonStart, exonEnd, cdsStart, cdsEnd) ==
    LET start == Max(exonStart, cdsStart)
        end == Min(exonEnd, cdsEnd)
    IN  [start |-> start, end |-> end]

\* The body of the for loop of exon_frames for the k-th exon of the scan
\* (k = 0 is the first exon scanned), then the rest of the loop.
RECURSIVE exon_frames_loop(_, _, _, _, _, _, _, _)
exon_frames_loop(k, frames, cds, cdsStart, cdsEnd, exonStart, exonEnd, strand) ==
    LET n == Len0(exonStart)
        start == IF strand = "+" THEN 0 ELSE n - 1
        step == IF strand = "+" THEN 1 ELSE -1
        exon == start + k * step
    IN  IF k >= n
        THEN [frames |-> frames, cds |-> cds]
        ELSE LET c == check_exon_frame(exonStart[exon], exonEnd[exon], cdsStart, cdsEnd)
             IN  IF c.start < c.end
                 THEN exon_frames_loop(k + 1, [frames EXCEPT ![exon] = cds % 3],
                                       cds + (c.end - c.start),
                                       cdsStart, cdsEnd, exonStart, exonEnd, strand)
                 ELSE exon_frames_loop(k + 1, [frames EXCEPT ![exon] = -1], cds,
                                       cdsStart, cdsEnd, exonStart, exonEnd, strand)

exon_frames(cdsStart, cdsEnd, exonStart, exonEnd, strand) ==
    exon_frames_loop(0, [i \in DOMAIN exonStart |-> 0], 0,
                     cdsStart, cdsEnd, exonStart, exonEnd, strand).frames

\* The running count cds of exon_frames when its loop ends.
exon_frames_cds(cdsStart, cdsEnd, exonStart, exonEnd, strand) ==
    exon_frames_loop(0, [i \in DOMAIN exonStart |-> 0], 0,
                     cdsStart, cdsEnd, exonStart, exonEnd, strand).cds

\* ------------------------------------------------------------ CodonLocator
\* A codon descriptor, the list codon[0..5]:
\* [start1, end1, start2, end2, exon1, exon2].
Codon(c0, c1, c2, c3, c4, c5) ==
    (0 :> c0) @@ (1 :> c1) @@ (2 :> c2) @@ (3 :> c3) @@ (4 :> c4) @@ (5 :> c5)

\* [0]*6
NoCodon == Codon(0, 0, 0, 0, 0, 0)

\* The for loop of find_first_codon over range(len(frames)-1). Its body
\* breaks or returns in its first pass, so only frames[0] is ever read; with
\* one exon the range is empty and exon_index keeps its initial 0.
\* returned: the function returned [0]*6 from inside the loop.
first_codon_scan(frames) ==
    IF Len0(frames) - 1 <= 0
    THEN [returned |-> FALSE, exon_index |-> 0]
    ELSE IF frames[0] >= 0
         THEN [returned |-> FALSE, exon_index |-> 0]
         ELSE [returned |-> TRUE, exon_index |-> 0]

\* The for loop of find_last_codon over range(len(frames)-1, -1, -1): its
\* body breaks or returns in its first pass, at fr = len(frames)-1.
last_codon_scan(frames) ==
    IF Len0(frames) <= 0
    THEN [returned |-> FALSE, exon_index |-> 0]
    ELSE IF frames[Len0(frames) - 1] >= 0
         THEN [returned |-> FALSE, exon_index |-> Len0(frames) - 1]
         ELSE [returned |-> TRUE, exon_index |-> 0]

find_first_codon(frames, strand, cdsStart, cdsEnd, exonStart, exonEnd) ==
    LET scan == first_codon_scan(frames)
        exon_index == scan.exon_index
        c == check_exon_frame(exonStart[exon_index], exonEnd[exon_index], cdsStart, cdsEnd)
        frame == IF strand = "+"
                 THEN frames[exon_index]
                 ELSE (frames[exon_index] + (c.end - c.start)) % 3
        codon0 == cdsStart
        codon1 == cdsStart + Min(cdsEnd - cdsStart, 3)
        needed == 3 - (codon1 - codon0)
    IN  IF scan.returned THEN NoCodon
        ELSE IF frame # 0 THEN NoCodon
        ELSE IF codon1 - codon0 < 3
             THEN IF cdsEnd - cdsStart < needed
                  THEN NoCodon
                  ELSE Codon(codon0, codon1, cdsStart, cdsStart + needed,
                             exon_index + 1, exon_index)
             ELSE Codon(codon0, codon1, 0, 0, exon_index, 0)

find_last_codon(frames, strand, cdsStart, cdsEnd, exonStart, exonEnd) ==
    LET scan == last_codon_scan(frames)
        exon_index == scan.exon_index
        c == check_exon_frame(exonStart[exon_index], exonEnd[exon_index], cdsStart, cdsEnd)
        frame == IF strand = "-"
                 THEN frames[exon_index]
                 ELSE (frames[exon_index] + (c.end - c.start)) % 3
        codon0 == Max(cdsStart, cdsEnd - 3)
        codon1 == cdsEnd
        needed == 3 - (codon1 - codon0)
    IN  IF scan.returned THEN NoCodon
        ELSE IF frame # 0 THEN NoCodon
        ELSE IF codon1 - codon0 < 3
             THEN IF cdsEnd - cdsStart < needed
                  THEN NoCodon
                  ELSE Codon(codon0, codon1, cdsStart, cdsStart + needed,
                             exon_index - 1, exon_index)
             ELSE Codon(codon0, codon1, 0, 0, exon_index, 0)

\* codon_complete with <= for ==.
codon_complete_atmost(codon) ==
    ((codon[1] - codon[0]) + (codon[3] - codon[2])) <= 3

codon_complete(codon) ==
    ((codon[1] - codon[0]) + (codon[3] - codon[2])) = 3

\* ------------------------------------------------------------ CoordinateWalker
in_exon(exon, pos, exonStarts, exonEnds) ==
    exonStarts[exon] <= pos /\ pos <= exonEnds[exon]

\* The first for loop of move_pos: the first exon holding pos, -1 for None.
move_pos_find(exonCount, exonStart, exonEnd, pos) ==
    LET found == {i \in 0..(exonCount - 1) : in_exon(i, pos, exonStart, exonEnd)}
    IN  IF found = {} THEN -1
        ELSE CHOOSE i \in found : \A j \in found : i <= j

\* move_pos_step without the steps -= 1 of the backward jump.
move_pos_step_freeback(exonCount, exonStart, exonEnd, direction, exon, pos, steps) ==
    IF in_exon(exon, pos + direction, exonStart, exonEnd)
    THEN [exon |-> exon, pos |-> pos + direction, steps |-> steps - 1]
    ELSE IF direction >= 0
         THEN [exon |-> exon + 1,
               pos |-> IF exon + 1 < exonCount THEN exonStart[exon + 1] ELSE pos,
               steps |-> steps]
         ELSE [exon |-> exon - 1,
               pos |-> IF exon - 1 >= 0 THEN exonEnd[exon - 1] - 1 ELSE pos,
               steps |-> steps]

\* move_pos_step with a steps -= 1 in the forward jump too.
move_pos_step_paidfwd(exonCount, exonStart, exonEnd, direction, exon, pos, steps) ==
    IF in_exon(exon, pos + direction, exonStart, exonEnd)
    THEN [exon |-> exon, pos |-> pos + direction, steps |-> steps - 1]
    ELSE IF direction >= 0
         THEN [exon |-> exon + 1,
               pos |-> IF exon + 1 < exonCount THEN exonStart[exon + 1] ELSE pos,
               steps |-> IF exon + 1 < exonCount THEN steps - 1 ELSE steps]
         ELSE [exon |-> exon - 1,
               pos |-> IF exon - 1 >= 0 THEN exonEnd[exon - 1] - 1 ELSE pos,
               steps |-> IF exon - 1 >= 0 THEN steps - 1 ELSE steps]

\* One pass of the while loop of move_pos from (exon, pos, steps).
move_pos_step(exonCount, exonStart, exonEnd, direction, exon, pos, steps) ==
    IF in_exon(exon, pos + direction, exonStart, exonEnd)
    THEN [exon |-> exon, pos |-> pos + direction, steps |-> steps - 1]
    ELSE IF direction >= 0
         THEN [exon |-> exon + 1,
               pos |-> IF exon + 1 < exonCount THEN exonStart[exon + 1] ELSE pos,
               steps |-> steps]
         ELSE [exon |-> exon - 1,
               pos |-> IF exon - 1 >= 0 THEN exonEnd[exon - 1] - 1 ELSE pos,
               steps |-> IF exon - 1 >= 0 THEN steps - 1 ELSE steps]

\* ------------------------------------------------------------ FeatureEmitter
\* A call of build_gtf_line, before its assert.
Call(type_g, start, end, exon, frame) ==
    [type |-> type_g, start |-> start, end |-> end, exon |-> exon, frame |-> frame]

\* The line build_gene_line writes.
build_gene_line(geneName, strand, type, start, end) ==
    [type |-> type, start |-> start + 1, end |-> end, strand |-> strand,
     phase |-> ".", gene_id |-> geneName, transcript_id |-> "",
     has_exon |-> FALSE, exon_number |-> 0]

\* The conversion of a frame to a phase in build_gtf_line.
phase_of(frame) ==
    IF frame < 0 THEN "."
    ELSE IF frame = 0 THEN "0"
    ELSE IF frame = 1 THEN "2" ELSE "1"

\* The line build_gtf_line writes.
build_gtf_line(name, strand, geneName, type_g, start, end, exon, frame, exonCount) ==
    [type |-> type_g, start |-> start + 1, end |-> end, strand |-> strand,
     phase |-> phase_of(frame),
     gene_id |-> geneName, transcript_id |-> name,
     has_exon |-> exon >= 0,
     exon_number |-> IF exon >= 0
                     THEN IF strand = "-" THEN exonCount - exon ELSE exon + 1
                     ELSE 0]

\* The build_gtf_line calls of write_features for exon i, in order.
write_features(i, strand, firstUtrEnd, cdsStart, cdsEnd, lastUtrStart, frame, exonStarts, exonEnds) ==
    LET exonStart == exonStarts[i]
        exonEnd == exonEnds[i]
    IN  (IF exonStart < firstUtrEnd
         THEN <<Call(IF strand = "+" THEN "5UTR" ELSE "3UTR",
                     exonStart, Min(exonEnd, firstUtrEnd), i, -1)>>
         ELSE <<>>)
        \o
        (IF cdsStart < exonEnd /\ cdsEnd > exonStart
         THEN <<Call("CDS", Max(exonStart, cdsStart), Min(exonEnd, cdsEnd), i, frame)>>
         ELSE <<>>)
        \o
        (IF exonEnd > lastUtrStart
         THEN <<Call(IF strand = "+" THEN "3UTR" ELSE "5UTR",
                     Max(lastUtrStart, exonStart), exonEnd, i, -1)>>
         ELSE <<>>)

\* The build_gtf_line calls of write_codon, in order.
write_codon(type_g, codon) ==
    <<Call(type_g, codon[0], codon[1], codon[4], 0)>>
    \o
    (IF codon[2] < codon[3]
     THEN <<Call(type_g, codon[2], codon[1], codon[5], codon[1] - codon[0])>>
     ELSE <<>>)

\* The calls whose assert start <= end holds, up to the first that fails.
RECURSIVE Passing(_)
Passing(calls) ==
    IF calls = <<>> \/ Head(calls).start > Head(calls).end
    THEN <<>>
    ELSE <<Head(calls)>> \o Passing(Tail(calls))

\* ------------------------------------------------------------ RecordPipeline
\* trim_call with the two strands exchanged.
trim_call_swapped(strand, first_codon, last_codon, first_utr_end, last_utr_start) ==
    IF strand = "-" /\ codon_complete(last_codon)
    THEN [called |-> TRUE, pos |-> last_utr_start, dist |-> -3]
    ELSE IF strand = "+" /\ codon_complete(first_codon)
         THEN [called |-> TRUE, pos |-> first_utr_end, dist |-> 3]
         ELSE [called |-> FALSE, pos |-> 0, dist |-> 0]

\* The two if statements of run that trim the stop codon off the CDS: whether
\* move_pos is called, and with which pos and dist. dist -3 is the call
\* whose result is assigned to cdsEnd, dist 3 the one assigned to cdsStart.
trim_call(strand, first_codon, last_codon, first_utr_end, last_utr_start) ==
    IF strand = "+" /\ codon_complete(last_codon)
    THEN [called |-> TRUE, pos |-> last_utr_start, dist |-> -3]
    ELSE IF strand = "-" /\ codon_complete(first_codon)
         THEN [called |-> TRUE, pos |-> first_utr_end, dist |-> 3]
         ELSE [called |-> FALSE, pos |-> 0, dist |-> 0]

\* codon_calls with the two writes of the - strand in the other order.
codon_calls_stopfirst(strand, first_codon, last_codon) ==
    IF strand # "-"
    THEN (IF codon_complete(first_codon)
          THEN write_codon("start_codon", first_codon) ELSE <<>>)
         \o
         (IF codon_complete(last_codon)
          THEN write_codon("stop_codon", last_codon) ELSE <<>>)
    ELSE (IF codon_complete(first_codon)
          THEN write_codon("stop_codon", first_codon) ELSE <<>>)
         \o
         (IF codon_complete(last_codon)
          THEN write_codon("start_codon", last_codon) ELSE <<>>)

\* The codon records of run, after the exon loop: the write_codon calls in
\* the order run makes them.
codon_calls(strand, first_codon, last_codon) ==
    IF strand # "-"
    THEN (IF codon_complete(first_codon)
          THEN write_codon("start_codon", first_codon) ELSE <<>>)
         \o
         (IF codon_complete(last_codon)
          THEN write_codon("stop_codon", last_codon) ELSE <<>>)
    ELSE (IF codon_complete(last_codon)
          THEN write_codon("start_codon", last_codon) ELSE <<>>)
         \o
         (IF codon_complete(first_codon)
          THEN write_codon("stop_codon", first_codon) ELSE <<>>)

\* genes_put without the assignment GENES[geneName] = True.
genes_put_forget(genes, geneName) == genes

\* GENES after run's gene block for geneName.
genes_put(genes, geneName) == genes \cup {geneName}

VARIABLES
    pc,             \* where the process is: "read" (run is about to start on
                    \* line), "move" (in the while loop of move_pos), "gene",
                    \* "exons" (in the for loop of run), "done" (run returned),
                    \* "error" (an exception ended the process)
    GENES,          \* the keys of the global GENES
    out,            \* the lines written to the GTF file
    line,           \* the fields of the BED line run is given
    lineno,         \* the number of the line in the BED file
    geneName, exonStart, exonEnd, cdsStart, cdsEnd, frames,
    first_codon, last_codon, first_utr_end, last_utr_start, x,   \* locals of run
    pos, exon, steps, dist                                        \* locals of move_pos

fileVars == <<GENES, out, line, lineno>>

runVars == <<geneName, exonStart, exonEnd, cdsStart, cdsEnd, frames,
             first_codon, last_codon, first_utr_end, last_utr_start, x>>

moveVars == <<pos, exon, steps, dist>>

vars == <<pc, fileVars, runVars, moveVars>>

\* No call of run or of move_pos is active.
NoLocals ==
    /\ geneName = "" /\ exonStart = Nil /\ exonEnd = Nil
    /\ cdsStart = 0 /\ cdsEnd = 0 /\ frames = Nil
    /\ first_codon = NoCodon /\ last_codon = NoCodon
    /\ first_utr_end = 0 /\ last_utr_start = 0 /\ x = 0
    /\ pos = 0 /\ exon = 0 /\ steps = 0 /\ dist = 0

\* main() has opened the files and is about to call run on the first line.
InitOn(maxPos, maxExons, maxStart, names) ==
    /\ pc = "read"
    /\ GENES = {}
    /\ out = <<>>
    /\ IsLine(line, maxPos, maxExons, maxStart, names)
    /\ lineno = 1
    /\ NoLocals

Init == InitOn(MaxPos, MaxExons, MaxStart, {"t1"})

InitSeq == InitOn(SeqMaxPos, MaxExons, 0, Names)

\* The lines build_gtf_line writes for the calls whose assert holds.
GtfLines(calls) ==
    [i \in 1..Len(calls) |->
        build_gtf_line(line.name, line.strand, geneName, calls[i].type,
                       calls[i].start, calls[i].end, calls[i].exon, calls[i].frame,
                       line.exonCount)]

\* run, from its first line to the call of move_pos (up to the while loop of
\* move_pos) or, when there is no such call, to the gene block.
RunBegin ==
    /\ pc = "read"
    /\ LET es == [i \in 0..(line.exonCount - 1) |-> line.txStart + line.blockStarts[i]]
           ee == [i \in 0..(line.exonCount - 1) |-> es[i] + line.blockSizes[i]]
           fr == exon_frames(line.cdsStart, line.cdsEnd, es, ee, line.strand)
           fc == find_first_codon(fr, line.strand, line.cdsStart, line.cdsEnd, es, ee)
           lc == find_last_codon(fr, line.strand, line.cdsStart, line.cdsEnd, es, ee)
           trim == trim_call(line.strand, fc, lc, line.cdsStart, line.cdsEnd)
           found == move_pos_find(line.exonCount, es, ee, trim.pos)
       IN  /\ geneName' = isoforms[line.name]
           /\ exonStart' = es
           /\ exonEnd' = ee
           /\ cdsStart' = line.cdsStart
           /\ cdsEnd' = line.cdsEnd
           /\ frames' = fr
           /\ first_codon' = fc
           /\ last_codon' = lc
           /\ first_utr_end' = line.cdsStart
           /\ last_utr_start' = line.cdsEnd
           /\ IF trim.called
              THEN /\ pos' = trim.pos
                   /\ dist' = trim.dist
                   /\ exon' = found
                   /\ steps' = Abs(trim.dist)
                   /\ pc' = IF /\ line.txStart <= trim.pos
                               /\ trim.pos <= line.txEnd
                               /\ found # -1
                            THEN "move" ELSE "error"
              ELSE /\ pc' = "gene"
                   /\ UNCHANGED moveVars
    /\ UNCHANGED <<fileVars, x>>

\* One pass of the while loop of move_pos.
MoveStep ==
    /\ pc = "move"
    /\ 0 <= exon /\ exon < line.exonCount /\ steps > 0
    /\ LET nxt == move_pos_step(line.exonCount, exonStart, exonEnd,
                                IF dist >= 0 THEN 1 ELSE -1, exon, pos, steps)
       IN  /\ exon' = nxt.exon
           /\ pos' = nxt.pos
           /\ steps' = nxt.steps
    /\ UNCHANGED <<pc, fileVars, runVars, dist>>

\* The end of move_pos and the assignment of its result in run.
MoveReturn ==
    /\ pc = "move"
    /\ ~(0 <= exon /\ exon < line.exonCount /\ steps > 0)
    /\ IF steps > 0
       THEN /\ pc' = "error"
            /\ UNCHANGED <<cdsStart, cdsEnd>>
       ELSE /\ pc' = "gene"
            /\ cdsEnd' = IF dist < 0 THEN pos ELSE cdsEnd
            /\ cdsStart' = IF dist < 0 THEN cdsStart ELSE pos
    /\ UNCHANGED <<fileVars, moveVars, geneName, exonStart, exonEnd, frames,
                   first_codon, last_codon, first_utr_end, last_utr_start, x>>

\* The gene block of run and the transcript line.
WriteGene ==
    /\ pc = "gene"
    /\ IF line.txStart <= line.txEnd
       THEN /\ out' = out
                 \o (IF geneName \notin GENES
                     THEN <<build_gene_line(geneName, line.strand, "gene",
                                            line.txStart, line.txEnd)>>
                     ELSE <<>>)
                 \o GtfLines(<<Call("transcript", line.txStart, line.txEnd, -1, -1)>>)
            /\ GENES' = IF geneName \notin GENES THEN genes_put(GENES, geneName) ELSE GENES
            /\ pc' = "exons"
       ELSE /\ pc' = "error"
            /\ UNCHANGED <<out, GENES>>
    /\ x' = 0
    /\ UNCHANGED <<line, lineno, moveVars, geneName, exonStart, exonEnd, cdsStart,
                   cdsEnd, frames, first_codon, last_codon, first_utr_end,
                   last_utr_start>>

\* One pass of the for loop of run over the exons.
WriteExon ==
    /\ pc = "exons"
    /\ x < line.exonCount
    /\ LET calls == <<Call("exon", exonStart[x], exonEnd[x], x, -1)>>
                    \o (IF cdsStart < cdsEnd
                        THEN write_features(x, line.strand, first_utr_end, cdsStart,
                                            cdsEnd, last_utr_start, frames[x],
                                            exonStart, exonEnd)
                        ELSE <<>>)
       IN  /\ out' = out \o GtfLines(Passing(calls))
           /\ IF Len(Passing(calls)) = Len(calls)
              THEN x' = x + 1 /\ pc' = pc
              ELSE x' = x /\ pc' = "error"
    /\ UNCHANGED <<GENES, line, lineno, moveVars, geneName, exonStart, exonEnd,
                   cdsStart, cdsEnd, frames, first_codon, last_codon, first_utr_end,
                   last_utr_start>>

\* The codon records, and the return of run.
WriteCodons ==
    /\ pc = "exons"
    /\ x >= line.exonCount
    /\ LET calls == codon_calls(line.strand, first_codon, last_codon)
       IN  /\ out' = out \o GtfLines(Passing(calls))
           /\ pc' = IF Len(Passing(calls)) = Len(calls) THEN "done" ELSE "error"
    /\ UNCHANGED <<GENES, line, lineno, runVars, moveVars>>

\* The for loop of main reads the next line of the BED file and calls run.
\* The lines of one file here differ in transcript name and strand only.
NextRecord ==
    /\ pc = "done"
    /\ lineno < MaxRecords
    /\ \E nm \in Names, sd \in Strands :
          line' = [line EXCEPT !.name = nm, !.strand = sd]
    /\ lineno' = lineno + 1
    /\ pc' = "read"
    /\ geneName' = "" /\ exonStart' = Nil /\ exonEnd' = Nil
    /\ cdsStart' = 0 /\ cdsEnd' = 0 /\ frames' = Nil
    /\ first_codon' = NoCodon /\ last_codon' = NoCodon
    /\ first_utr_end' = 0 /\ last_utr_start' = 0 /\ x' = 0
    /\ pos' = 0 /\ exon' = 0 /\ steps' = 0 /\ dist' = 0
    /\ UNCHANGED <<GENES, out>>

\* run on one line.
Next ==
    \/ RunBegin
    \/ MoveStep
    \/ MoveReturn
    \/ WriteGene
    \/ WriteExon
    \/ WriteCodons

Spec == Init /\ [][Next]_vars

\* main on a file of up to MaxRecords lines.
NextSeq ==
    \/ RunBegin
    \/ MoveStep
    \/ MoveReturn
    \/ WriteGene
    \/ WriteExon
    \/ WriteCodons
    \/ NextRecord

SpecSeq == InitSeq /\ [][NextSeq]_vars

\* ------------------------------------------------------------ properties
\* Position p is a base of some exon of the transcript.
ExonBase(p) ==
    \E i \in DOMAIN exonStart : exonStart[i] <= p /\ p < exonEnd[i]

\* The number of exon bases in [a, b).
ExonBases(a, b) == Cardinality({p \in a..(b - 1) : ExonBase(p)})

\* [a, b) lies inside exon i of the transcript.
InsideExon(a, b, i) ==
    i \in DOMAIN exonStart /\ exonStart[i] <= a /\ b <= exonEnd[i]

\* The places in the output of the lines of the given feature type.
LinesOf(type) == {k \in 1..Len(out) : out[k].type = type}

\* The exon index a written line names by its exon_number.
ExonIndexOf(r) ==
    IF r.strand = "-" THEN line.exonCount - r.exon_number ELSE r.exon_number - 1

\* No well-formed line makes run raise.
NoError == pc # "error"

\* C1: the leading search selects the lowest-index exon whose frame is not
\* -1 and the trailing search the highest-index one, however many exons of
\* frame -1 the scan meets first; either search gives up for lack of a
\* coding exon only when every exon has frame -1.
C1_ScanSelectsCodingExon ==
    pc # "read" =>
        LET coding == {i \in DOMAIN frames : frames[i] # -1}
            lead == first_codon_scan(frames)
            trail == last_codon_scan(frames)
        IN  /\ lead.returned => coding = {}
            /\ trail.returned => coding = {}
            /\ coding # {} =>
                  /\ lead.exon_index \in coding
                  /\ \A i \in coding : lead.exon_index <= i
                  /\ trail.exon_index \in coding
                  /\ \A i \in coding : i <= trail.exon_index

\* C2: on the + strand with two exons, cdsEnd one base into the second exon
\* and the other two bases of the (aligned) stop codon at the tail of the
\* first exon, find_last_codon returns two non-empty intervals of lengths
\* summing to 3, one inside each exon, with the two exons as exon indices.
C2_SplitStopCodon ==
    (/\ pc # "read"
     /\ line.strand = "+"
     /\ line.exonCount = 2
     /\ line.cdsEnd = exonStart[1] + 1
     /\ line.cdsStart <= exonEnd[0] - 2
     /\ ExonBases(line.cdsStart, line.cdsEnd) % 3 = 0)
    => /\ last_codon[0] < last_codon[1]
       /\ last_codon[2] < last_codon[3]
       /\ (last_codon[1] - last_codon[0]) + (last_codon[3] - last_codon[2]) = 3
       /\ {last_codon[4], last_codon[5]} = {0, 1}
       /\ InsideExon(last_codon[0], last_codon[1], last_codon[4])
       /\ InsideExon(last_codon[2], last_codon[3], last_codon[5])

\* C3: the output holds exactly one gene line for every gene name that has a
\* line in it; that gene line is the first line of the gene, written with
\* (and right before) the transcript line of the first record of the gene,
\* and no later record of the gene adds another.
C3_OneGeneLinePerGene ==
    \A g \in {isoforms[nm] : nm \in Names} :
        LET of_g == {k \in 1..Len(out) : out[k].gene_id = g}
            genes_g == {k \in of_g : out[k].type = "gene"}
            first == CHOOSE k \in of_g : \A j \in of_g : k <= j
        IN  /\ (g \in GENES) = (of_g # {})
            /\ of_g # {} =>
                  /\ genes_g = {first}
                  /\ first + 1 \in of_g
                  /\ out[first + 1].type = "transcript"

\* Two records of one gene have been written.
C3_Witness ==
    /\ pc = "done"
    /\ Cardinality({k \in LinesOf("transcript") : out[k].gene_id = "g1"}) >= 2
    /\ Cardinality({out[k].transcript_id : k \in LinesOf("transcript")}) >= 2

\* C4: when the stop codon is complete, run narrows the CDS on the stop
\* side by exactly 3 exon bases (intron bases not counted), leaves the other
\* CDS bound alone, and does so before it writes any line of the transcript.
C4_StopCodonTrim ==
    /\ pc \in {"read", "move"} => out = <<>>
    /\ (pc # "read" /\ line.strand = "+" /\ codon_complete(last_codon)) =>
          /\ pc # "error"
          /\ pc # "move" =>
                /\ cdsEnd <= last_utr_start
                /\ ExonBases(cdsEnd, last_utr_start) = 3
                /\ cdsStart = first_utr_end
    /\ (pc # "read" /\ line.strand = "-" /\ codon_complete(first_codon)) =>
          /\ pc # "error"
          /\ pc # "move" =>
                /\ first_utr_end <= cdsStart
                /\ ExonBases(first_utr_end, cdsStart) = 3
                /\ cdsEnd = last_utr_start

\* The trim of a + strand transcript has walked back over an intron.
C4_Witness ==
    /\ pc = "done"
    /\ line.strand = "+"
    /\ codon_complete(last_codon)
    /\ last_utr_start - cdsEnd > 3

\* The codon lines come after every other line of the transcript.
CodonLinesLast ==
    \A k \in LinesOf("start_codon") \cup LinesOf("stop_codon") :
        \A j \in 1..Len(out) :
            out[j].type \notin {"start_codon", "stop_codon"} => j < k

\* C5 as stated: after the per-exon lines, start_codon before stop_codon on
\* the + strand and stop_codon before start_codon on the - strand, each
\* written only if its descriptor is complete.
C5_CodonOrderByStrand ==
    pc = "done" =>
        /\ CodonLinesLast
        /\ line.strand = "+" =>
              /\ \A a \in LinesOf("start_codon"), b \in LinesOf("stop_codon") : a < b
              /\ (LinesOf("start_codon") # {}) = codon_complete(first_codon)
              /\ (LinesOf("stop_codon") # {}) = codon_complete(last_codon)
        /\ line.strand = "-" =>
              /\ \A a \in LinesOf("start_codon"), b \in LinesOf("stop_codon") : b < a
              /\ (LinesOf("start_codon") # {}) = codon_complete(last_codon)
              /\ (LinesOf("stop_codon") # {}) = codon_complete(first_codon)

\* C5 amended: after the per-exon lines, start_codon before stop_codon on
\* both strands (on - the start codon is last_codon and the stop codon is
\* first_codon), each written only if its descriptor is complete.
C5_StartBeforeStop ==
    pc = "done" =>
        /\ CodonLinesLast
        /\ \A a \in LinesOf("start_codon"), b \in LinesOf("stop_codon") : a < b
        /\ line.strand = "+" =>
              /\ (LinesOf("start_codon") # {}) = codon_complete(first_codon)
              /\ (LinesOf("stop_codon") # {}) = codon_complete(last_codon)
        /\ line.strand = "-" =>
              /\ (LinesOf("start_codon") # {}) = codon_complete(last_codon)
              /\ (LinesOf("stop_codon") # {}) = codon_complete(first_codon)

\* A - strand transcript with both codons written.
C5_Witness ==
    /\ pc = "done"
    /\ line.strand = "-"
    /\ LinesOf("start_codon") # {}
    /\ LinesOf("stop_codon") # {}

\* C6: for a line with cdsStart = cdsEnd run writes the gene line, the
\* transcript line and one exon line per exon and nothing else, and never
\* moves the CDS bounds.
C6_NonCoding ==
    line.cdsStart = line.cdsEnd =>
        /\ pc \notin {"move", "error"}
        /\ pc # "read" => cdsStart = line.cdsStart /\ cdsEnd = line.cdsEnd
        /\ \A k \in 1..Len(out) : out[k].type \in {"gene", "transcript", "exon"}
        /\ pc = "done" =>
              /\ Len(out) = 2 + line.exonCount
              /\ out[1].type = "gene"
              /\ out[2].type = "transcript"
              /\ \A i \in 0..(line.exonCount - 1) :
                    /\ out[3 + i].type = "exon"
                    /\ out[3 + i].start = exonStart[i] + 1
                    /\ out[3 + i].end = exonEnd[i]

\* A non-coding - strand transcript of several exons has been written.
C6_Witness ==
    /\ pc = "done"
    /\ line.cdsStart = line.cdsEnd
    /\ line.strand = "-"
    /\ line.exonCount >= 2

\* C7 as stated: for a coding transcript the final running count cds of
\* exon_frames equals cdsEnd - cdsStart (before the trim).
C7_SumIsCdsSpan ==
    (pc # "read" /\ line.cdsStart < line.cdsEnd) =>
        exon_frames_cds(line.cdsStart, line.cdsEnd, exonStart, exonEnd, line.strand)
            = line.cdsEnd - line.cdsStart

\* C7 amended: for a coding transcript the final running count cds of
\* exon_frames equals the number of exon bases in [cdsStart, cdsEnd), which
\* is cdsEnd - cdsStart less the intron bases between the two bounds.
C7_SumIsExonBases ==
    (pc # "read" /\ line.cdsStart < line.cdsEnd) =>
        /\ exon_frames_cds(line.cdsStart, line.cdsEnd, exonStart, exonEnd, line.strand)
              = ExonBases(line.cdsStart, line.cdsEnd)
        /\ ExonBases(line.cdsStart, line.cdsEnd)
              = (line.cdsEnd - line.cdsStart)
                - Cardinality({p \in line.cdsStart..(line.cdsEnd - 1) : ~ExonBase(p)})

\* A coding transcript whose CDS spans an intron.
C7_Witness ==
    /\ pc = "done"
    /\ line.cdsStart < line.cdsEnd
    /\ ExonBases(line.cdsStart, line.cdsEnd) < line.cdsEnd - line.cdsStart
    /\ ExonBases(line.cdsStart, line.cdsEnd) > 0

\* C8 as stated: in move_pos, in either direction, the pass of the loop that
\* leaves the current exon consumes none of the distance.
C8_JumpIsFree ==
    [][(pc = "move" /\ exon' # exon) => steps' = steps]_vars

\* C8 amended: a forward pass that leaves the current exon moves to the
\* start of the next exon and consumes none of the distance; a backward one
\* moves to the last base of the previous exon and consumes one unit.
C8_JumpCost ==
    [][(pc = "move" /\ exon' # exon) =>
          IF dist >= 0
          THEN /\ exon' = exon + 1
               /\ steps' = steps
               /\ exon' < line.exonCount => pos' = exonStart[exon']
          ELSE /\ exon' = exon - 1
               /\ exon' >= 0 => (steps' = steps - 1 /\ pos' = exonEnd[exon'] - 1)
               /\ exon' < 0 => steps' = steps]_vars

\* A backward walk has left the exon it started in.
C8_Witness ==
    /\ pc = "move"
    /\ dist < 0
    /\ exon >= 0
    /\ exon # move_pos_find(line.exonCount, exonStart, exonEnd, last_utr_start)

\* C9: the lines written for a complete codon are pairwise disjoint, each
\* inside the one exon its exon_number names, of lengths summing to 3, the
\* second with the descriptor's second interval as its coordinates.
C9_CodonLinesInExons ==
    pc = "done" =>
        \A type \in {"start_codon", "stop_codon"} :
            LET ks == LinesOf(type)
                codon == IF (type = "start_codon") = (line.strand # "-")
                         THEN first_codon ELSE last_codon
                first == CHOOSE k \in ks : \A j \in ks : k <= j
            IN  ks # {} =>
                  /\ \A k \in ks :
                        /\ out[k].has_exon
                        /\ InsideExon(out[k].start - 1, out[k].end, ExonIndexOf(out[k]))
                  /\ \A k \in ks, j \in ks :
                        k < j => (out[k].end <= out[j].start - 1
                                  \/ out[j].end <= out[k].start - 1)
                  /\ Cardinality(ks) <= 2
                  /\ (out[first].end - (out[first].start - 1))
                     + (IF Cardinality(ks) = 2
                        THEN out[first + 1].end - (out[first + 1].start - 1)
                        ELSE 0) = 3
                  /\ Cardinality(ks) = 2 =>
                        /\ out[first + 1].start - 1 = codon[2]
                        /\ out[first + 1].end = codon[3]

\* C10: the phase of every CDS line run writes, taken from the frames of the
\* CDS bounds before the trim, is the phase of the frame exon_frames gives
\* the line's exon from the trimmed bounds.
C10_FramesSurviveTrim ==
    \A k \in LinesOf("CDS") :
        /\ out[k].has_exon
        /\ ExonIndexOf(out[k]) \in DOMAIN exonStart
        /\ out[k].phase =
              phase_of(exon_frames(cdsStart, cdsEnd, exonStart, exonEnd,
                                   line.strand)[ExonIndexOf(out[k])])

\* A trimmed - strand transcript with CDS lines in two exons.
C10_Witness ==
    /\ pc = "done"
    /\ line.strand = "-"
    /\ cdsStart # first_utr_end
    /\ Cardinality(LinesOf("CDS")) >= 2

====
